---- MODULE Spec2Model ----
(***************************************************************************)
(* Model of the approval / payment-format Telegram bot of this repository. *)
(* The repository holds two entry points: src/bot.py (administrator menu,  *)
(* message-user feature, try/except around every handler) and src/main.py  *)
(* (the earlier near-duplicate).  The variable `program` fixes which of    *)
(* the two is running; everything else is the state the handlers touch:    *)
(* the two module-level containers, the per-user user_data, and the state  *)
(* each ConversationHandler keeps per user.                                *)
(*                                                                         *)
(* Updates are processed one at a time (Application without                *)
(* concurrent_updates), so one action is one update handled to the end:    *)
(* dispatch (first matching handler of the registration order), the        *)
(* callback, and the conversation-state update made from its return value. *)
(* Every outbound call to the gateway may raise; `F` is the set of         *)
(* positions (1st, 2nd, ... call made by the handler) that raise.          *)
(***************************************************************************)
EXTENDS Integers, Sequences, FiniteSets, TLC

\* ---------------------------------------------------------------- bounds
NumIdentities == 2      \* identities 1..NumIdentities; identity 1 is the administrator
MaxChunks     == 5      \* a text put to the extraction is made of at most MaxChunks pieces
MaxPrompts    == 2      \* approve/reject prompts the administrator holds for one identity

\* ------------------------------------------------------ program constants
ADMIN_ID            == 1
WAITING_FOR_IDS     == 0
WAITING_FOR_AMOUNT  == 1
WAITING_FOR_USER_ID == 2
END                 == -1   \* ConversationHandler.END; also stands for "no conversation"
MIN_ID_DIGITS       == 5    \* \d{5,} and len(user_input) < 5

Identities == 1..NumIdentities
Programs   == {"bot", "main"}

\* ------------------------------------------------------------------ text
\* A text is a sequence of one-character strings.
Digits     == {"0", "1", "2", "3", "4", "5", "6", "7", "8", "9"}
Letters    == {"a"}
Whitespace == {" ", "\n"}
\* a character that str.isdigit() takes for a digit and int() does not: the
\* superscript two (U+00B2), written "^2" here
SuperscriptDigits == {"^2"}

\* \w of the re module: alphanumerics and the underscore
IsWordChar(c) == c \in Digits \cup Letters \cup SuperscriptDigits \cup {"_"}

\* \b at offset p (between t[p] and t[p+1]; the string edges count as non-word)
WordBoundary(t, p) ==
    LET before == p >= 1 /\ IsWordChar(t[p])
        after  == p < Len(t) /\ IsWordChar(t[p + 1])
    IN  before # after

\* number of consecutive digits starting right after offset p
RECURSIVE DigitRun(_, _)
DigitRun(t, p) ==
    IF p < Len(t) /\ t[p + 1] \in Digits THEN 1 + DigitRun(t, p + 1) ELSE 0

\* length of the match of \b\d{5,}\b starting at offset p, 0 when there is none:
\* \d{5,} is greedy and gives digits back until the closing \b holds
MatchAt(t, p) ==
    IF ~WordBoundary(t, p) THEN 0
    ELSE LET ks == {k \in MIN_ID_DIGITS..DigitRun(t, p) : WordBoundary(t, p + k)}
         IN  IF ks = {} THEN 0 ELSE CHOOSE k \in ks : \A j \in ks : j <= k

\* re.findall: leftmost non-overlapping matches, scanning from offset p
RECURSIVE FindAllFrom(_, _)
FindAllFrom(t, p) ==
    IF p >= Len(t) THEN <<>>
    ELSE LET k == MatchAt(t, p)
         IN  IF k > 0 THEN <<SubSeq(t, p + 1, p + k)>> \o FindAllFrom(t, p + k)
             ELSE FindAllFrom(t, p + 1)

FindAll(t) == FindAllFrom(t, 0)

InSeq(x, s) == \E k \in 1..Len(s) : s[k] = x

\* the seen/unique_ids loop: keep the first occurrence of every token
RECURSIVE UniqueFrom(_, _, _)
UniqueFrom(ids, k, acc) ==
    IF k > Len(ids) THEN acc
    ELSE UniqueFrom(ids, k + 1, IF InSeq(ids[k], acc) THEN acc ELSE Append(acc, ids[k]))

\* Unique without the seen set: every match is kept
Unique_keepsAll(ids) == ids

Unique(ids) == UniqueFrom(ids, 1, <<>>)

\* str.strip()
RECURSIVE LStrip(_)
LStrip(t) == IF t # <<>> /\ Head(t) \in Whitespace THEN LStrip(Tail(t)) ELSE t

RECURSIVE RStrip(_)
RStrip(t) ==
    IF t # <<>> /\ t[Len(t)] \in Whitespace THEN RStrip(SubSeq(t, 1, Len(t) - 1)) ELSE t

Strip(t) == RStrip(LStrip(t))

\* str.isdigit() on the characters of the model's alphabet
IsDigit(t) == t # <<>> /\ \A k \in 1..Len(t) : t[k] \in Digits \cup SuperscriptDigits

\* int(t) raises ValueError: some character of t is no decimal digit
IntRaises(t) == t = <<>> \/ \E k \in 1..Len(t) : t[k] \notin Digits

\* '\n'.join(lines)
RECURSIVE Join(_)
Join(lines) ==
    IF lines = <<>> THEN <<>>
    ELSE IF Len(lines) = 1 THEN lines[1]
    ELSE lines[1] \o <<"\n">> \o Join(Tail(lines))

\* the formatted_lines loop and the final join
FormatLines(user_ids, amount) ==
    [k \in 1..Len(user_ids) |-> user_ids[k] \o <<" ">> \o amount]

FinalOutput(user_ids, amount) == Join(FormatLines(user_ids, amount))


\* int(user_input) of a text of decimal digits, as the f-strings of the reply
\* write it: the digits without leading zeros (Python integers have no width,
\* and an identity of ten digits is beyond the integers of this model)
RECURSIVE IntOf(_)
IntOf(t) ==
    IF Len(t) > 1 /\ Head(t) = "0" THEN IntOf(Tail(t)) ELSE t

\* ----------------------------------------------------------------- inputs
\* What the gateway tells about the sender of an entry command.  A missing
\* username or last name is None, written "None" here.
Users ==
    { [username |-> "None", first_name |-> "F", last_name |-> "None"],
      [username |-> "u",    first_name |-> "G", last_name |-> "L"] }

NoUser == [username |-> "None", first_name |-> "", last_name |-> "None"]

\* Free texts the identities send.
TextTwoIds == <<"1","1","1","1","1","\n","2","2","2","2","2","\n","1","1","1","1","1">>
TextOneId  == <<" ","0","1","2","3","4","5","\n">>
TextNoId   == <<"1","2","3","4","_","1","2","3","4","5">>
TextBlank  == <<" ","\n">>
Texts == {TextTwoIds, TextOneId, TextNoId, TextBlank}

Command(name, user) ==
    [kind |-> "command", data |-> name, target |-> 0, text |-> <<>>, user |-> user]
Callback(data, target) ==
    [kind |-> "callback", data |-> data, target |-> target, text |-> <<>>, user |-> NoUser]
Text(t) ==
    [kind |-> "text", data |-> "text", target |-> 0, text |-> t, user |-> NoUser]

\* ------------------------------------------------------------------ state
VARIABLES
    program,            \* which entry point runs: "bot" (src/bot.py) or "main" (src/main.py)
    approved_users,     \* the set approved_users
    pending_approvals,  \* the dict pending_approvals: user id -> stored profile
    user_data,          \* context.user_data['user_ids'] per user; <<>> when the key is absent
    payment_conv,       \* state the payment ConversationHandler keeps per user (END: none)
    message_conv,       \* state the message ConversationHandler keeps per user (END: none)
    last,               \* the update handled last: who sent it, what it carried, what ran
    step,               \* where the text pipeline below stands ("handlers": not in use)
    message_text,       \* process_user_ids: update.message.text
    stored_ids,         \* process_user_ids: unique_ids, as stored in user_data['user_ids']
    stripped_amount,    \* process_amount: amount, the stripped text
    final_output,       \* process_amount: final_output
    target_result,      \* get_user_id_for_message: the state it returned and its calls
    accepted,           \* per user, the list of the identifier message accepted in the
                        \* run of the format workflow under way; <<>> when there is none
    prompts             \* per user, the approve/reject prompts about that user the
                        \* administrator has received and not yet decided

pipeline == <<step, message_text, stored_ids, stripped_amount, final_output, target_result>>

vars == <<program, approved_users, pending_approvals, user_data, payment_conv,
          message_conv, last, accepted, prompts, pipeline>>

\* -------------------------------------------------------- outbound calls
\* One call to the gateway: kind names the message, `to` the chat, `about` the
\* identity a button or link of the message is tagged with (0: none), body the
\* literal block it carries, info the profile it shows.
NoInfo == [username |-> "", first_name |-> "", last_name |-> ""]
Msg(to, kind, about, body, info) ==
    [to |-> to, kind |-> kind, about |-> about, body |-> body, info |-> info, ok |-> TRUE]
Plain(to, kind) == Msg(to, kind, 0, <<>>, NoInfo)

\* position of the first of the calls base+1..base+n that raises, 0 if none does
FirstFail(n, F, base) ==
    LET bad == {k \in 1..n : (base + k) \in F}
    IN  IF bad = {} THEN 0 ELSE CHOOSE k \in bad : \A j \in bad : k <= j

\* the calls of msgs actually made: all of them, or up to the first that raises
Made(msgs, F) ==
    LET ff == FirstFail(Len(msgs), F, 0)
        n  == IF ff = 0 THEN Len(msgs) ELSE ff
    IN  [k \in 1..n |-> [msgs[k] EXCEPT !.ok = (k # ff)]]

Raises(msgs, F) == FirstFail(Len(msgs), F, 0) # 0

\* a call made at position pos
At(m, pos, F) == [m EXCEPT !.ok = (pos \notin F)]

\* what a handler leaves behind: the two containers, the caller's user_data, the
\* state it returned (ret = {} when it returned None or raised) and its calls
Result(au, pa, ud, ret, out) ==
    [au |-> au, pa |-> pa, ud |-> ud, ret |-> ret, out |-> out]

\* bot.py: except Exception -> error reply -> return fallback
\* (the reply itself may raise, and then nothing is returned)
Caught(au, pa, ud, fallback, made, to, F) ==
    LET pos == Len(made) + 1
    IN  Result(au, pa, ud, IF pos \in F THEN {} ELSE fallback,
               Append(made, At(Plain(to, "error"), pos, F)))


\* ---------------------------------------------------------------- handlers
\* the dict stored in pending_approvals
Stored(user) ==
    [username   |-> user.username,
     first_name |-> user.first_name,
     last_name  |-> IF user.last_name = "None" THEN "" ELSE user.last_name]

\* UserManager.get_user_info as start calls it
get_user_info(user) ==
    [username   |-> IF user.username = "None" THEN "No username" ELSE user.username,
     first_name |-> user.first_name,
     last_name  |-> IF user.last_name = "None" THEN "" ELSE user.last_name]

\* pending_approvals.get(user_id, {}) and the three .get of the confirmation text
Snapshot(pa, uid) ==
    IF uid \in DOMAIN pa THEN pa[uid]
    ELSE [username |-> "No username", first_name |-> "", last_name |-> ""]

\* pending_approvals.pop(user_id, None)
Pop(pa, uid) == [k \in (DOMAIN pa) \ {uid} |-> pa[k]]

\* Put as setdefault would do it: an entry already there is kept
PutKeepsFirst(pa, uid, entry) ==
    [k \in (DOMAIN pa) \cup {uid} |-> IF k \in DOMAIN pa THEN pa[k] ELSE entry]

\* pending_approvals[user_id] = {...}
Put(pa, uid, entry) == [k \in (DOMAIN pa) \cup {uid} |-> IF k = uid THEN entry ELSE pa[k]]

show_admin_menu(to) == Plain(to, "admin_menu")

show_payment_format(to) == Plain(to, "payment_format_prompt")

ApprovalRequest(uid, user) == Msg(ADMIN_ID, "approval_request", uid, <<>>, get_user_info(user))

\* start without its "already approved" branch
start_unguarded(i, user, F) ==
    LET au == approved_users
        pa == pending_approvals
        ud == user_data[i]
    IN  IF i = ADMIN_ID THEN
            LET m == <<show_admin_menu(i)>>
            IN  IF Raises(m, F) THEN Caught(au, pa, ud, {}, Made(m, F), i, F)
                ELSE Result(au, pa, ud, {}, Made(m, F))
        ELSE
            LET pa2 == Put(pa, i, Stored(user))
                m   == <<ApprovalRequest(i, user), Plain(i, "request_sent")>>
            IN  IF Raises(m, F) THEN Caught(au, pa2, ud, {}, Made(m, F), i, F)
                ELSE Result(au, pa2, ud, {}, Made(m, F))

\* bot.py start
start(i, user, F) ==
    LET au == approved_users
        pa == pending_approvals
        ud == user_data[i]
    IN  IF i = ADMIN_ID THEN
            LET m == <<show_admin_menu(i)>>
            IN  IF Raises(m, F) THEN Caught(au, pa, ud, {}, Made(m, F), i, F)
                ELSE Result(au, pa, ud, {}, Made(m, F))
        ELSE IF i \in au THEN
            \* show_payment_format logs what its reply raises
            Result(au, pa, ud, {}, Made(<<show_payment_format(i)>>, F))
        ELSE
            LET pa2 == Put(pa, i, Stored(user))
                m   == <<ApprovalRequest(i, user), Plain(i, "request_sent")>>
            IN  IF Raises(m, F) THEN Caught(au, pa2, ud, {}, Made(m, F), i, F)
                ELSE Result(au, pa2, ud, {}, Made(m, F))

\* main.py start: no administrator branch; only the send to the administrator is guarded
main_start(i, user, F) ==
    LET au == approved_users
        pa == pending_approvals
        ud == user_data[i]
    IN  IF i \in au THEN
            Result(au, pa, ud, {}, Made(<<show_payment_format(i)>>, F))
        ELSE
            LET pa2 == Put(pa, i, Stored(user))
                req == At(ApprovalRequest(i, user), 1, F)
            IN  IF ~req.ok
                THEN Result(au, pa2, ud, {}, <<req, At(Plain(i, "config_error"), 2, F)>>)
                ELSE Result(au, pa2, ud, {}, <<req, At(Plain(i, "request_sent"), 2, F)>>)

\* help_command (both programs): one reply, no state
help_command(i, F) ==
    Result(approved_users, pending_approvals, user_data[i], {},
           Made(<<Plain(i, "help")>>, F))

\* bot.py cancel: the reply's failure is logged, END is returned either way
cancel(i, F) ==
    Result(approved_users, pending_approvals, <<>>, {END},
           Made(<<Plain(i, "cancelled")>>, F))

\* main.py cancel: a failing reply raises before the return
main_cancel(i, F) ==
    LET m == <<Plain(i, "cancelled")>>
    IN  Result(approved_users, pending_approvals, <<>>,
               IF Raises(m, F) THEN {} ELSE {END}, Made(m, F))

\* decide with a reject that also takes the identity out of approved_users
decide_revoking(i, action, uid, F) ==
    LET au      == approved_users
        pa      == pending_approvals
        ud      == user_data[i]
        au2     == IF action = "approve" THEN au \cup {uid} ELSE au \ {uid}
        answer  == At(Plain(i, "answer"), 1, F)
        confirm == At(Msg(i, IF action = "approve" THEN "approved_confirm"
                                                    ELSE "rejected_confirm",
                          uid, <<>>, Snapshot(pa, uid)), 2, F)
        notice  == At(Msg(uid, IF action = "approve" THEN "approved_notice"
                                                      ELSE "rejected_notice",
                          0, <<>>, NoInfo), 3, F)
    IN  IF ~answer.ok THEN Result(au, pa, ud, {}, <<answer>>)
        ELSE IF ~confirm.ok THEN Result(au2, pa, ud, {}, <<answer, confirm>>)
        ELSE Result(au2, Pop(pa, uid), ud, {}, <<answer, confirm, notice>>)

\* decide with the send to the target outside any try/except: a failing notice
\* leaves the handler before the pop
decide_unguarded(i, action, uid, F) ==
    LET au      == approved_users
        pa      == pending_approvals
        ud      == user_data[i]
        au2     == IF action = "approve" THEN au \cup {uid} ELSE au
        answer  == At(Plain(i, "answer"), 1, F)
        confirm == At(Msg(i, IF action = "approve" THEN "approved_confirm"
                                                    ELSE "rejected_confirm",
                          uid, <<>>, Snapshot(pa, uid)), 2, F)
        notice  == At(Msg(uid, IF action = "approve" THEN "approved_notice"
                                                      ELSE "rejected_notice",
                          0, <<>>, NoInfo), 3, F)
    IN  IF ~answer.ok THEN Result(au, pa, ud, {}, <<answer>>)
        ELSE IF ~confirm.ok THEN Result(au2, pa, ud, {}, <<answer, confirm>>)
        ELSE IF ~notice.ok THEN Result(au2, pa, ud, {}, <<answer, confirm, notice>>)
        ELSE Result(au2, Pop(pa, uid), ud, {}, <<answer, confirm, notice>>)

\* decide with the pop on the reject branch only
decide_keepsRequest(i, action, uid, F) ==
    LET au      == approved_users
        pa      == pending_approvals
        ud      == user_data[i]
        au2     == IF action = "approve" THEN au \cup {uid} ELSE au
        pa2     == IF action = "approve" THEN pa ELSE Pop(pa, uid)
        answer  == At(Plain(i, "answer"), 1, F)
        confirm == At(Msg(i, IF action = "approve" THEN "approved_confirm"
                                                    ELSE "rejected_confirm",
                          uid, <<>>, Snapshot(pa, uid)), 2, F)
        notice  == At(Msg(uid, IF action = "approve" THEN "approved_notice"
                                                      ELSE "rejected_notice",
                          0, <<>>, NoInfo), 3, F)
    IN  IF ~answer.ok THEN Result(au, pa, ud, {}, <<answer>>)
        ELSE IF ~confirm.ok THEN Result(au2, pa, ud, {}, <<answer, confirm>>)
        ELSE Result(au2, pa2, ud, {}, <<answer, confirm, notice>>)

\* handle_approval, the part both programs share.  i pressed the button, action
\* and uid are the two halves of its callback data.  The call to the target is
\* inside its own try/except; answer and edit_message_text are not, and when one
\* of them raises the handler is left before the pop (bot.py: the outer except
\* logs; main.py: the exception leaves the handler).
decide(i, action, uid, F) ==
    LET au      == approved_users
        pa      == pending_approvals
        ud      == user_data[i]
        au2     == IF action = "approve" THEN au \cup {uid} ELSE au
        answer  == At(Plain(i, "answer"), 1, F)
        confirm == At(Msg(i, IF action = "approve" THEN "approved_confirm"
                                                    ELSE "rejected_confirm",
                          uid, <<>>, Snapshot(pa, uid)), 2, F)
        notice  == At(Msg(uid, IF action = "approve" THEN "approved_notice"
                                                      ELSE "rejected_notice",
                          0, <<>>, NoInfo), 3, F)
    IN  IF ~answer.ok THEN Result(au, pa, ud, {}, <<answer>>)
        ELSE IF ~confirm.ok THEN Result(au2, pa, ud, {}, <<answer, confirm>>)
        ELSE Result(au2, Pop(pa, uid), ud, {}, <<answer, confirm, notice>>)

\* bot.py handle_approval
handle_approval(i, action, uid, F) == decide(i, action, uid, F)

\* main.py handle_approval
main_handle_approval(i, action, uid, F) == decide(i, action, uid, F)

\* bot.py handle_payment_format
handle_payment_format(i, F) ==
    LET m == <<Plain(i, "answer"), Plain(i, "instructions")>>
    IN  Result(approved_users, pending_approvals, user_data[i],
               IF Raises(m, F) THEN {END} ELSE {WAITING_FOR_IDS}, Made(m, F))

\* main.py handle_payment_format
main_handle_payment_format(i, F) ==
    LET m == <<Plain(i, "answer"), Plain(i, "instructions")>>
    IN  Result(approved_users, pending_approvals, user_data[i],
               IF Raises(m, F) THEN {} ELSE {WAITING_FOR_IDS}, Made(m, F))

\* bot.py handle_message_user
handle_message_user(i, F) ==
    LET m == <<Plain(i, "answer"),
               Plain(i, IF i # ADMIN_ID THEN "admin_only" ELSE "ask_target")>>
    IN  Result(approved_users, pending_approvals, user_data[i],
               IF Raises(m, F) THEN {END}
               ELSE IF i # ADMIN_ID THEN {} ELSE {WAITING_FOR_USER_ID},
               Made(m, F))

\* bot.py get_user_id_for_message
get_user_id_for_message(i, text, F) ==
    LET au         == approved_users
        pa         == pending_approvals
        ud         == user_data[i]
        user_input == Strip(text)
    IN  IF ~IsDigit(user_input) \/ Len(user_input) < MIN_ID_DIGITS THEN
            LET m == <<Plain(i, "invalid_target")>>
            IN  IF Raises(m, F) THEN Caught(au, pa, ud, {END}, Made(m, F), i, F)
                ELSE Result(au, pa, ud, {WAITING_FOR_USER_ID}, Made(m, F))
        ELSE IF IntRaises(user_input) THEN
            \* int(user_input) raises inside the try: error reply, END
            Caught(au, pa, ud, {END}, <<>>, i, F)
        ELSE
            LET m == <<Msg(i, "target_link", IntOf(user_input), <<>>, NoInfo),
                       show_admin_menu(i)>>
            IN  IF Raises(m, F) THEN Caught(au, pa, ud, {END}, Made(m, F), i, F)
                ELSE Result(au, pa, ud, {END}, Made(m, F))

\* ExtractStep giving the conversation up when the text holds no identifier
ExtractStep_abort(i, text) ==
    LET user_ids   == FindAll(text)
        unique_ids == Unique(user_ids)
    IN  IF user_ids = <<>>
        THEN [ud |-> user_data[i], ret |-> {END}, m |-> <<Plain(i, "no_ids")>>]
        ELSE [ud |-> unique_ids, ret |-> {WAITING_FOR_AMOUNT},
              m  |-> <<Msg(i, "ids_found", 0, Join(unique_ids), NoInfo)>>]

\* ExtractStep adding the identifiers to the list already stored
ExtractStep_extends(i, text) ==
    LET user_ids   == FindAll(text)
        unique_ids == Unique(user_data[i] \o user_ids)
    IN  IF user_ids = <<>>
        THEN [ud |-> user_data[i], ret |-> {WAITING_FOR_IDS}, m |-> <<Plain(i, "no_ids")>>]
        ELSE [ud |-> unique_ids, ret |-> {WAITING_FOR_AMOUNT},
              m  |-> <<Msg(i, "ids_found", 0, Join(unique_ids), NoInfo)>>]

\* process_user_ids up to its reply: the new user_data, the state to return and the reply
ExtractStep(i, text) ==
    LET user_ids   == FindAll(text)
        unique_ids == Unique(user_ids)
    IN  IF user_ids = <<>>
        THEN [ud |-> user_data[i], ret |-> {WAITING_FOR_IDS}, m |-> <<Plain(i, "no_ids")>>]
        ELSE [ud |-> unique_ids, ret |-> {WAITING_FOR_AMOUNT},
              m  |-> <<Msg(i, "ids_found", 0, Join(unique_ids), NoInfo)>>]

\* bot.py process_user_ids
process_user_ids(i, text, F) ==
    LET s == ExtractStep(i, text)
    IN  IF Raises(s.m, F)
        THEN Caught(approved_users, pending_approvals, s.ud, {END}, Made(s.m, F), i, F)
        ELSE Result(approved_users, pending_approvals, s.ud, s.ret, Made(s.m, F))

\* main.py process_user_ids
main_process_user_ids(i, text, F) ==
    LET s == ExtractStep(i, text)
    IN  Result(approved_users, pending_approvals, s.ud,
               IF Raises(s.m, F) THEN {} ELSE s.ret, Made(s.m, F))

\* process_amount: the calls it makes in order, the state it returns when none
\* raises, and the position of the call that follows user_data.clear() (0: no clear)
AmountStep(i, text, menu) ==
    LET amount   == Strip(text)
        user_ids == user_data[i]
    IN  IF amount = <<>>
        THEN [m |-> <<Plain(i, "amount_invalid")>>, ret |-> {WAITING_FOR_AMOUNT}, clear |-> 0]
        ELSE IF user_ids = <<>>
        THEN [m |-> <<Plain(i, "no_user_ids")>>, ret |-> {END}, clear |-> 0]
        ELSE [m |-> <<Msg(i, "formatted", 0, FinalOutput(user_ids, amount), NoInfo), menu>>,
              ret |-> {END}, clear |-> 2]

\* AfterAmount without the user_data.clear()
AfterAmount_keeps(i, s, F) == user_data[i]

\* user_data after the calls of step s: cleared once the call before the clear went through
AfterAmount(i, s, F) ==
    LET ff == FirstFail(Len(s.m), F, 0)
    IN  IF s.clear # 0 /\ (ff = 0 \/ ff >= s.clear) THEN <<>> ELSE user_data[i]

\* bot.py process_amount
process_amount(i, text, F) ==
    LET s  == AmountStep(i, text, IF i = ADMIN_ID THEN show_admin_menu(i)
                                                  ELSE Plain(i, "format_more"))
        ud == AfterAmount(i, s, F)
    IN  IF Raises(s.m, F)
        THEN Caught(approved_users, pending_approvals, ud, {END}, Made(s.m, F), i, F)
        ELSE Result(approved_users, pending_approvals, ud, s.ret, Made(s.m, F))

\* main.py process_amount
main_process_amount(i, text, F) ==
    LET s  == AmountStep(i, text, Plain(i, "format_more"))
        ud == AfterAmount(i, s, F)
    IN  Result(approved_users, pending_approvals, ud,
               IF Raises(s.m, F) THEN {} ELSE s.ret, Made(s.m, F))


\* ---------------------------------------------------------------- dispatch
\* Handlers with the two ConversationHandlers of bot.py registered first
Handlers_convFirst(prog) ==
    IF prog = "bot"
    THEN <<"start", "help", "cancel", "approval", "payment_conv_handler",
           "message_conv_handler", "payment_format", "message_user">>
    ELSE <<"start", "help", "cancel", "approval", "payment_conv_handler">>

\* Registration order of the handlers (all in group 0): for one update the
\* Application runs the first handler whose check_update accepts it, and no other.
Handlers(prog) ==
    IF prog = "bot"
    THEN <<"start", "help", "cancel", "approval", "payment_format", "message_user",
           "payment_conv_handler", "message_conv_handler">>
    ELSE <<"start", "help", "cancel", "approval", "payment_conv_handler">>

\* ConvCheck taking a text for the first stage also when no conversation is open
ConvCheck_anyText(entry, states, state, u) ==
    IF u.kind = "callback" /\ u.data = entry THEN entry
    ELSE IF u.kind = "text" /\ state \in DOMAIN states THEN states[state]
    ELSE IF u.kind = "text"
    THEN states[CHOOSE s \in DOMAIN states : \A r \in DOMAIN states : s <= r]
    ELSE IF state = END THEN ""
    ELSE IF u.kind = "command" /\ u.data = "cancel" THEN "cancel"
    ELSE ""

\* ConversationHandler.check_update: with allow_reentry the entry point is tried
\* in every state; otherwise the handlers of the current state, then the
\* fallbacks.  The result names the callback to run, "" when the update is not
\* for this conversation.
ConvCheck(entry, states, state, u) ==
    IF u.kind = "callback" /\ u.data = entry THEN entry
    ELSE IF state = END THEN ""
    ELSE IF u.kind = "text" /\ state \in DOMAIN states THEN states[state]
    ELSE IF u.kind = "command" /\ u.data = "cancel" THEN "cancel"
    ELSE ""

PaymentStates ==
    [s \in {WAITING_FOR_IDS, WAITING_FOR_AMOUNT} |->
        IF s = WAITING_FOR_IDS THEN "process_user_ids" ELSE "process_amount"]

MessageStates == [s \in {WAITING_FOR_USER_ID} |-> "get_user_id_for_message"]

\* the callback handler h would run for update u of identity i, "" when h does not accept u
Check(h, u, i) ==
    CASE h \in {"start", "help", "cancel"} ->
            IF u.kind = "command" /\ u.data = h THEN h ELSE ""
      [] h = "approval" ->
            IF u.kind = "callback" /\ u.data \in {"approve", "reject"} THEN h ELSE ""
      [] h \in {"payment_format", "message_user"} ->
            IF u.kind = "callback" /\ u.data = h THEN h ELSE ""
      [] h = "payment_conv_handler" ->
            ConvCheck("payment_format", PaymentStates, payment_conv[i], u)
      [] h = "message_conv_handler" ->
            ConvCheck("message_user", MessageStates, message_conv[i], u)

\* the handler that takes the update: [via, callback]; via = "" when none does
Dispatch(prog, u, i) ==
    LET hs   == Handlers(prog)
        hits == {k \in 1..Len(hs) : Check(hs[k], u, i) # ""}
    IN  IF hits = {} THEN [via |-> "", callback |-> ""]
        ELSE LET k == CHOOSE x \in hits : \A y \in hits : x <= y
             IN  [via |-> hs[k], callback |-> Check(hs[k], u, i)]

\* the callback run on update u of identity i
Run(prog, callback, u, i, F) ==
    CASE callback = "start" ->
            IF prog = "bot" THEN start(i, u.user, F) ELSE main_start(i, u.user, F)
      [] callback = "help" -> help_command(i, F)
      [] callback = "cancel" ->
            IF prog = "bot" THEN cancel(i, F) ELSE main_cancel(i, F)
      [] callback = "approval" ->
            IF prog = "bot" THEN handle_approval(i, u.data, u.target, F)
            ELSE main_handle_approval(i, u.data, u.target, F)
      [] callback = "payment_format" ->
            IF prog = "bot" THEN handle_payment_format(i, F)
            ELSE main_handle_payment_format(i, F)
      [] callback = "message_user" -> handle_message_user(i, F)
      [] callback = "process_user_ids" ->
            IF prog = "bot" THEN process_user_ids(i, u.text, F)
            ELSE main_process_user_ids(i, u.text, F)
      [] callback = "process_amount" ->
            IF prog = "bot" THEN process_amount(i, u.text, F)
            ELSE main_process_amount(i, u.text, F)
      [] callback = "get_user_id_for_message" -> get_user_id_for_message(i, u.text, F)
      [] OTHER ->
            Result(approved_users, pending_approvals, user_data[i], {}, <<>>)

\* ConversationHandler._update_state: END drops the conversation, None keeps the state
NewState(old, ret) == IF ret = {} THEN old ELSE CHOOSE s \in ret : TRUE

\* the most outbound calls a run of the callback makes, the error reply included
Calls(callback) ==
    CASE callback \in {"start", "approval", "process_amount", "get_user_id_for_message"} -> 3
      [] callback \in {"payment_format", "message_user", "process_user_ids"} -> 2
      [] callback \in {"help", "cancel"} -> 1
      [] OTHER -> 0

\* What handling update u of identity i can come to: the handler that takes it,
\* and the result of its callback for every way the gateway can fail its calls
\* (F: the positions of the calls that raise).
Outcomes(i, u) ==
    LET d == Dispatch(program, u, i)
    IN  { [via |-> d.via, callback |-> d.callback, u |-> u,
           r |-> Run(program, d.callback, u, i, F)] : F \in SUBSET (1..Calls(d.callback)) }

\* The list of the message accepted last in the sender's run of the format
\* workflow, after outcome o: the identifiers of the text on which
\* process_user_ids moved on to the amount; none once the conversation is entered
\* anew or has ended, the run was cancelled, or its result has been delivered.
Accepted(old, o) ==
    IF /\ o.via = "payment_conv_handler"
       /\ o.callback = "process_user_ids"
       /\ o.r.ret = {WAITING_FOR_AMOUNT}
    THEN Unique(FindAll(o.u.text))
    ELSE IF o.via = "payment_conv_handler" /\ o.r.ret \in {{WAITING_FOR_IDS}, {END}} THEN <<>>
    ELSE IF o.callback = "cancel" THEN <<>>
    ELSE IF \E n \in 1..Len(o.r.out) : o.r.out[n].kind = "formatted" /\ o.r.out[n].ok THEN <<>>
    ELSE old

\* Effect with one user_data for all identities instead of context.user_data
Effect_shared(i, o) ==
    [au |-> o.r.au,
     pa |-> o.r.pa,
     ud |-> [j \in Identities |-> o.r.ud],
     pc |-> IF o.via = "payment_conv_handler"
            THEN [payment_conv EXCEPT ![i] = NewState(@, o.r.ret)] ELSE payment_conv,
     mc |-> IF o.via = "message_conv_handler"
            THEN [message_conv EXCEPT ![i] = NewState(@, o.r.ret)] ELSE message_conv,
     acc |-> [accepted EXCEPT ![i] = Accepted(@, o)]]

\* The state identity i's update leaves behind when it comes to outcome o.  The
\* return value reaches a ConversationHandler only when that handler took the update.
Effect(i, o) ==
    [au |-> o.r.au,
     pa |-> o.r.pa,
     ud |-> [user_data EXCEPT ![i] = o.r.ud],
     pc |-> IF o.via = "payment_conv_handler"
            THEN [payment_conv EXCEPT ![i] = NewState(@, o.r.ret)] ELSE payment_conv,
     mc |-> IF o.via = "message_conv_handler"
            THEN [message_conv EXCEPT ![i] = NewState(@, o.r.ret)] ELSE message_conv,
     acc |-> [accepted EXCEPT ![i] = Accepted(@, o)]]

\* The containers and the conversations after an update that came to effect e.
Apply(e) ==
    /\ approved_users'    = e.au
    /\ pending_approvals' = e.pa
    /\ user_data'         = e.ud
    /\ payment_conv'      = e.pc
    /\ message_conv'      = e.mc
    /\ accepted'          = e.acc
    /\ UNCHANGED <<program, prompts, pipeline>>

Handled(i, u, o) ==
    [from |-> i, data |-> u.data, target |-> u.target, via |-> o.via, callback |-> o.callback]

\* ----------------------------------------------------------------- actions
\* One action is one update handled to the end: dispatch, callback, state update.

\* /start
StartCommand ==
    \E i \in Identities, user \in Users :
        \E o \in Outcomes(i, Command("start", user)) :
            /\ Apply(Effect(i, o))
            /\ last' = Handled(i, Command("start", user), o)

\* /help
HelpCommand ==
    \E i \in Identities :
        \E o \in Outcomes(i, Command("help", NoUser)) :
            /\ Apply(Effect(i, o))
            /\ last' = Handled(i, Command("help", NoUser), o)

\* /cancel
CancelCommand ==
    \E i \in Identities :
        \E o \in Outcomes(i, Command("cancel", NoUser)) :
            /\ Apply(Effect(i, o))
            /\ last' = Handled(i, Command("cancel", NoUser), o)

\* a press of a button tagged approve_<uid> or reject_<uid>, by any identity
ApprovalPress ==
    \E i \in Identities, action \in {"approve", "reject"}, uid \in Identities :
        \E o \in Outcomes(i, Callback(action, uid)) :
            /\ Apply(Effect(i, o))
            /\ last' = Handled(i, Callback(action, uid), o)

\* a press of a button tagged payment_format
PaymentFormatPress ==
    \E i \in Identities :
        \E o \in Outcomes(i, Callback("payment_format", 0)) :
            /\ Apply(Effect(i, o))
            /\ last' = Handled(i, Callback("payment_format", 0), o)

\* a press of a button tagged message_user
MessageUserPress ==
    \E i \in Identities :
        \E o \in Outcomes(i, Callback("message_user", 0)) :
            /\ Apply(Effect(i, o))
            /\ last' = Handled(i, Callback("message_user", 0), o)

\* a text message that is not a command
TextMessage ==
    \E i \in Identities, t \in Texts :
        \E o \in Outcomes(i, Text(t)) :
            /\ Apply(Effect(i, o))
            /\ last' = Handled(i, Text(t), o)

NoResult == Result({}, [k \in {} |-> NoInfo], <<>>, {}, <<>>)

NoUpdate == [from |-> 0, data |-> "", target |-> 0, via |-> "", callback |-> ""]

Init ==
    /\ program \in Programs
    /\ approved_users = {}
    /\ pending_approvals = [k \in {} |-> NoInfo]
    /\ user_data = [i \in Identities |-> <<>>]
    /\ payment_conv = [i \in Identities |-> END]
    /\ message_conv = [i \in Identities |-> END]
    /\ last = NoUpdate
    /\ step = "handlers"
    /\ message_text = <<>>
    /\ stored_ids = <<>>
    /\ stripped_amount = <<>>
    /\ final_output = <<>>
    /\ target_result = NoResult
    /\ accepted = [i \in Identities |-> <<>>]
    /\ prompts = [i \in Identities |-> 0]

Next ==
    \/ StartCommand
    \/ HelpCommand
    \/ CancelCommand
    \/ ApprovalPress
    \/ PaymentFormatPress
    \/ MessageUserPress
    \/ TextMessage

Spec == Init /\ [][Next]_vars

TypeOK ==
    /\ program \in Programs
    /\ approved_users \subseteq Identities
    /\ DOMAIN pending_approvals \subseteq Identities
    /\ \A i \in Identities :
          /\ payment_conv[i] \in {END, WAITING_FOR_IDS, WAITING_FOR_AMOUNT}
          /\ message_conv[i] \in {END, WAITING_FOR_USER_ID}
    /\ step \in {"handlers", "text", "ids", "out", "target"}


\* ---------------------------------------------------------- text pipeline
\* The two computations of the format workflow on their own: the extraction
\* of process_user_ids applied to a text, then the formatting of process_amount
\* applied to the extracted list and an amount text.  The texts are made of
\* pieces: digit runs of both sides of the length rule, a letter, the
\* underscore and a separator.
Chunks ==
    { <<"1", "1", "1", "1", "1">>, <<"2", "2", "2", "2", "2">>, <<"1", "2">>,
      <<"a">>, <<"_">>, <<" ">> }

RECURSIVE ChunkTexts(_)
ChunkTexts(n) ==
    IF n = 0 THEN {<<>>}
    ELSE LET shorter == ChunkTexts(n - 1)
         IN  shorter \cup {t \o c : t \in shorter, c \in Chunks}

InputTexts == ChunkTexts(MaxChunks)

\* texts put to get_user_id_for_message besides the ones above: padded digits
\* with a leading zero, five superscript twos, and a blank text
TargetTexts == {TextOneId, <<"^2", "^2", "^2", "^2", "^2">>, TextBlank}

\* amount texts as received: plain, padded, blank, and of two lines
Amounts ==
    { <<"5">>, <<" ", "2", ".", "1", "\n">>, <<" ", "\n">>, <<"5", "\n", "6">> }

InitText ==
    /\ program \in Programs
    /\ approved_users = {}
    /\ pending_approvals = [k \in {} |-> NoInfo]
    /\ user_data = [i \in Identities |-> <<>>]
    /\ payment_conv = [i \in Identities |-> END]
    /\ message_conv = [i \in Identities |-> END]
    /\ last = NoUpdate
    /\ step = "text"
    /\ message_text \in InputTexts \cup TargetTexts
    /\ stored_ids = <<>>
    /\ stripped_amount = <<>>
    /\ final_output = <<>>
    /\ target_result = NoResult
    /\ accepted = [i \in Identities |-> <<>>]
    /\ prompts = [i \in Identities |-> 0]

handlers == <<program, approved_users, pending_approvals, user_data, payment_conv,
              message_conv, last, accepted, prompts>>

\* process_user_ids: re.findall and the seen/unique_ids loop
ExtractIds ==
    /\ step = "text"
    /\ stored_ids' = Unique(FindAll(message_text))
    /\ step' = "ids"
    /\ UNCHANGED <<handlers, message_text, stripped_amount, final_output, target_result>>

\* process_amount: strip, the two guards, the formatted_lines loop and the join
FormatOutput ==
    /\ step = "ids"
    /\ stored_ids # <<>>
    /\ \E a \in Amounts :
          /\ Strip(a) # <<>>
          /\ stripped_amount' = Strip(a)
          /\ final_output' = FinalOutput(stored_ids, Strip(a))
    /\ step' = "out"
    /\ UNCHANGED <<handlers, message_text, stored_ids, target_result>>

\* get_user_id_for_message on the text, as the administrator's
TargetReply ==
    /\ step = "text"
    /\ \E F \in SUBSET (1..Calls("get_user_id_for_message")) :
          target_result' = get_user_id_for_message(ADMIN_ID, message_text, F)
    /\ step' = "target"
    /\ UNCHANGED <<handlers, message_text, stored_ids, stripped_amount, final_output>>

NextText ==
    \/ ExtractIds
    \/ FormatOutput
    \/ TargetReply

SpecText == InitText /\ [][NextText]_vars

\* ------------------------------------------------------------- vocabulary
\* every update an identity can send
Updates ==
    {Command("start", user) : user \in Users}
    \cup {Command("help", NoUser), Command("cancel", NoUser)}
    \cup {Callback(action, uid) : action \in {"approve", "reject"}, uid \in Identities}
    \cup {Callback("payment_format", 0), Callback("message_user", 0)}
    \cup {Text(t) : t \in Texts}

Starts == {Command("start", user) : user \in Users}

\* the calls of kind k among the calls out
CallsOfKind(out, k) == {n \in 1..Len(out) : out[n].kind = k}

HasKind(out, k) == CallsOfKind(out, k) # {}

\* no call of the run raised
AllOk(out) == \A n \in 1..Len(out) : out[n].ok

\* the kind of the first call of out that raised, "" when none did
Failed(out) ==
    LET bad == {n \in 1..Len(out) : ~out[n].ok}
    IN  IF bad = {} THEN "" ELSE out[CHOOSE n \in bad : \A m \in bad : n <= m].kind

FormatStages == {WAITING_FOR_IDS, WAITING_FOR_AMOUNT}

\* the session of identity i is IDLE: no conversation of either handler
Idle(i) == payment_conv[i] = END /\ message_conv[i] = END

\* ------------------------------------------------------ access requests
\* The approval workflow with the prompts the administrator holds.  start sends
\* the administrator a message with an Approve and a Reject button whose
\* callback_data carry the requester's id; the press of one is handled by
\* handle_approval, whose edit_message_text replaces the message and so takes
\* its buttons away.

\* prompts after an update that came to outcome o: one more for the identity of
\* every request that reached the administrator, one less for the identity of
\* the prompt whose message the decision has replaced
PromptsAfter(o) ==
    [j \in Identities |->
        prompts[j]
        + Cardinality({n \in 1..Len(o.r.out) :
              o.r.out[n].kind = "approval_request" /\ o.r.out[n].about = j /\ o.r.out[n].ok})
        - Cardinality({n \in 1..Len(o.r.out) :
              /\ o.r.out[n].kind \in {"approved_confirm", "rejected_confirm"}
              /\ o.r.out[n].about = j /\ o.r.out[n].ok})]

\* /start of any identity
RequestAccess ==
    \E i \in Identities, user \in Users :
        \E o \in Outcomes(i, Command("start", user)) :
            /\ PromptsAfter(o)[i] <= MaxPrompts
            /\ approved_users'    = o.r.au
            /\ pending_approvals' = o.r.pa
            /\ prompts'           = PromptsAfter(o)
            /\ last'              = Handled(i, Command("start", user), o)
            /\ UNCHANGED <<program, user_data, payment_conv, message_conv, accepted, pipeline>>

\* the administrator presses a button of a prompt they hold
DecidePrompt ==
    \E uid \in Identities, action \in {"approve", "reject"} :
        \E o \in Outcomes(ADMIN_ID, Callback(action, uid)) :
            /\ prompts[uid] > 0
            /\ approved_users'    = o.r.au
            /\ pending_approvals' = o.r.pa
            /\ prompts'           = PromptsAfter(o)
            /\ last'              = Handled(ADMIN_ID, Callback(action, uid), o)
            /\ UNCHANGED <<program, user_data, payment_conv, message_conv, accepted, pipeline>>

NextRequests ==
    \/ RequestAccess
    \/ DecidePrompt

SpecRequests == Init /\ [][NextRequests]_vars

\* ------------------------------------------------------------------ claims

\* C1: for a non-administrator identity i holding a PendingRequest, an approve
\* press by the administrator leaves i in ApprovedSet with no PendingRequest;
\* every entry command of an approved i yields the open-payment-format prompt and
\* no pending-approval message; and a further approve or reject for an approved
\* i without PendingRequest raises nothing and leaves i in ApprovedSet.
C1_ApproveThenEnter ==
    \A i \in Identities \ {ADMIN_ID} :
        /\ i \in DOMAIN pending_approvals =>
              \A o \in Outcomes(ADMIN_ID, Callback("approve", i)) :
                  /\ i \in Effect(ADMIN_ID, o).au
                  /\ i \notin DOMAIN Effect(ADMIN_ID, o).pa
        /\ i \in approved_users =>
              \A u \in Starts : \A o \in Outcomes(i, u) :
                  /\ HasKind(o.r.out, "payment_format_prompt")
                  /\ ~HasKind(o.r.out, "request_sent")
        /\ (i \in approved_users /\ i \notin DOMAIN pending_approvals) =>
              \A action \in {"approve", "reject"} :
                  \A o \in Outcomes(ADMIN_ID, Callback(action, i)) :
                      /\ ~HasKind(o.r.out, "error")
                      /\ i \in Effect(ADMIN_ID, o).au

\* C2: in every reachable state, an entry command of an identity in ApprovedSet
\* creates no PendingRequest, makes no call sending the administrator an
\* approve/reject prompt, and leaves PendingRequest and ApprovedSet as they were.
C2_ApprovedEntryCreatesNoRequest ==
    \A i \in approved_users : \A u \in Starts : \A o \in Outcomes(i, u) :
        /\ Effect(i, o).pa = pending_approvals
        /\ Effect(i, o).au = approved_users
        /\ ~HasKind(o.r.out, "approval_request")

\* an approved non-administrator identity has just issued the entry command
C2_Witness ==
    /\ last.callback = "start"
    /\ last.from # ADMIN_ID
    /\ last.from \in approved_users

C4_OnlyAdministratorApproves ==
    [][approved_users' # approved_users =>
           (last'.from = ADMIN_ID /\ last'.data = "approve")]_vars

\* C5: ApprovedSet is monotone: no transition removes an identity from it.
C5_ApprovedSetMonotone == [][approved_users \subseteq approved_users']_vars

\* a reject decision has just been handled for an identity that is approved
C5_Witness ==
    /\ last.callback = "approval"
    /\ last.data = "reject"
    /\ last.target \in approved_users

\* C6: a non-administrator identity whose session is in a format-workflow stage
\* is in ApprovedSet, and an unapproved non-administrator identity is never sent
\* a formatted result.
C6_FormatStageOnlyApproved ==
    \A i \in Identities \ {ADMIN_ID} :
        /\ payment_conv[i] \in FormatStages => i \in approved_users
        /\ i \notin approved_users =>
              \A u \in Updates : \A o \in Outcomes(i, u) : ~HasKind(o.r.out, "formatted")

\* C7: the administrator has no PendingRequest, and an entry command of the
\* administrator creates none, sends no approve/reject prompt, shows the
\* administrator menu and leaves the stage of the administrator's session unchanged.
C7_AdministratorExcluded ==
    /\ ADMIN_ID \notin DOMAIN pending_approvals
    /\ \A u \in Starts : \A o \in Outcomes(ADMIN_ID, u) :
          LET e == Effect(ADMIN_ID, o)
          IN  /\ e.pa = pending_approvals
              /\ ~HasKind(o.r.out, "approval_request")
              /\ HasKind(o.r.out, "admin_menu")
              /\ e.pc[ADMIN_ID] = payment_conv[ADMIN_ID]
              /\ e.mc[ADMIN_ID] = message_conv[ADMIN_ID]

\* C8: for an approved or administrator identity, when every call goes through:
\* a payment_format press in IDLE leads to AWAITING_IDS; a text with a non-empty
\* extraction L in AWAITING_IDS is answered with exactly L and leads to
\* AWAITING_AMOUNT; a text with non-empty trimmed value A in AWAITING_AMOUNT is
\* answered with the lines "<l> A", l of L in order, and leads to IDLE.
C8_FormatFlow ==
    \A i \in approved_users \cup {ADMIN_ID} :
        /\ Idle(i) =>
              \A o \in Outcomes(i, Callback("payment_format", 0)) :
                  AllOk(o.r.out) => Effect(i, o).pc[i] = WAITING_FOR_IDS
        /\ payment_conv[i] = WAITING_FOR_IDS =>
              \A t \in Texts : \A o \in Outcomes(i, Text(t)) :
                  (AllOk(o.r.out) /\ Unique(FindAll(t)) # <<>>) =>
                      /\ Effect(i, o).pc[i] = WAITING_FOR_AMOUNT
                      /\ \E n \in CallsOfKind(o.r.out, "ids_found") :
                            o.r.out[n].body = Join(Unique(FindAll(t)))
        /\ (payment_conv[i] = WAITING_FOR_AMOUNT /\ user_data[i] # <<>>) =>
              \A t \in Texts : \A o \in Outcomes(i, Text(t)) :
                  (AllOk(o.r.out) /\ Strip(t) # <<>>) =>
                      /\ Effect(i, o).pc[i] = END
                      /\ \E n \in CallsOfKind(o.r.out, "formatted") :
                            o.r.out[n].body = FinalOutput(user_data[i], Strip(t))

\* C9: from every non-IDLE stage a cancel command of the identity puts its
\* session in IDLE with an empty working identifier list.
C9_CancelReturnsToIdle ==
    [][(last'.data = "cancel" /\ ~Idle(last'.from)) =>
           /\ payment_conv'[last'.from] = END
           /\ message_conv'[last'.from] = END
           /\ user_data'[last'.from] = <<>>]_vars

\* C10: when the decision handler has run for an identity, approve or reject and
\* whichever of its calls raised, that identity has no PendingRequest.
C10_DecisionRemovesRequest ==
    [][last'.callback = "approval" => last'.target \notin DOMAIN pending_approvals']_vars

\* C11: sessions are independent: an update sent by identity A, whatever it is
\* (command, button press, text, a decision about B included), changes neither
\* the stage nor the working identifier list of any other identity B.
C11_SessionsIndependent ==
    [][\A b \in Identities \ {last'.from} :
           /\ payment_conv'[b] = payment_conv[b]
           /\ message_conv'[b] = message_conv[b]
           /\ user_data'[b] = user_data[b]]_vars

\* a decision about identity b, pressed by another identity, has just been
\* handled while b is collecting the amount and holds a working identifier list
C11_Witness ==
    \E b \in Identities :
        /\ last.callback = "approval"
        /\ last.target = b
        /\ last.from \notin {0, b}
        /\ payment_conv[b] = WAITING_FOR_AMOUNT
        /\ user_data[b] # <<>>

C14_NoticeFailureDoesNotAbort ==
    \A i \in Identities, uid \in Identities, action \in {"approve", "reject"} :
        \A o \in Outcomes(i, Callback(action, uid)) :
            Failed(o.r.out) \in {"approved_notice", "rejected_notice"} =>
                LET e == Effect(i, o)
                IN  /\ \E o2 \in Outcomes(i, Callback(action, uid)) :
                          /\ AllOk(o2.r.out)
                          /\ Effect(i, o2).au = e.au
                          /\ Effect(i, o2).pa = e.pa
                    /\ e.au = IF action = "approve" THEN approved_users \cup {uid}
                                                    ELSE approved_users
                    /\ uid \notin DOMAIN e.pa
                    /\ \E n \in CallsOfKind(o.r.out, IF action = "approve"
                                                      THEN "approved_confirm"
                                                      ELSE "rejected_confirm") :
                          o.r.out[n].ok
                    /\ ~HasKind(o.r.out, "error")

\* a non-administrator identity holds a PendingRequest and the administrator's
\* approve decision about it runs with the notice to that identity failing
C14_Witness ==
    \E uid \in DOMAIN pending_approvals \ {ADMIN_ID} :
        \E o \in Outcomes(ADMIN_ID, Callback("approve", uid)) :
            /\ Failed(o.r.out) = "approved_notice"
            /\ uid \in Effect(ADMIN_ID, o).au

\* C15: when a call raises inside the format entry, the identifier-collection
\* or the amount-collection transition, the session of the sender ends in IDLE.
C15_FailureResetsToIdle ==
    \A i \in Identities :
        \A u \in {Callback("payment_format", 0)} \cup {Text(t) : t \in Texts} :
            \A o \in Outcomes(i, u) :
                (/\ o.callback \in {"payment_format", "process_user_ids", "process_amount"}
                 /\ ~AllOk(o.r.out)) =>
                    Effect(i, o).pc[i] = END

\* C19: an identity whose session is AWAITING_AMOUNT holds a non-empty
\* working identifier list, and no text it sends takes the defensive branch of
\* the amount handler (empty list: error notice and IDLE).
C19_AmountStageHasList ==
    \A i \in Identities :
        payment_conv[i] = WAITING_FOR_AMOUNT =>
            /\ user_data[i] # <<>>
            /\ \A t \in Texts : \A o \in Outcomes(i, Text(t)) :
                  ~HasKind(o.r.out, "no_user_ids")

\* the digit runs of t of length >= 5 that are whole tokens: maximal, and with
\* no letter next to them
WholeTokenRuns(t) ==
    LET n    == Len(t)
        runs == {r \in (1..n) \X (1..n) :
                    /\ r[1] <= r[2]
                    /\ \A k \in r[1]..r[2] : t[k] \in Digits
                    /\ r[2] - r[1] + 1 >= 5
                    /\ (r[1] = 1 \/ t[r[1] - 1] \notin Digits \cup Letters)
                    /\ (r[2] = n \/ t[r[2] + 1] \notin Digits \cup Letters)}
    IN  {SubSeq(t, r[1], r[2]) : r \in runs}

Range(s) == {s[k] : k \in 1..Len(s)}

\* C16: the tokens returned by the extraction are exactly the maximal digit
\* runs of length >= 5 of the text that are whole tokens (next to no letter or
\* digit); the result is empty exactly when the text has no such run.
C16_ExtractsWholeTokenRuns ==
    step # "text" =>
        /\ Range(stored_ids) = WholeTokenRuns(message_text)
        /\ (stored_ids = <<>>) <=> (WholeTokenRuns(message_text) = {})

\* the offsets at which tok stands in t as a token of its own
Occurrences(tok, t) ==
    {p \in 1..Len(t) :
        /\ p + Len(tok) - 1 <= Len(t)
        /\ SubSeq(t, p, p + Len(tok) - 1) = tok
        /\ (p = 1 \/ ~IsWordChar(t[p - 1]))
        /\ (p + Len(tok) > Len(t) \/ ~IsWordChar(t[p + Len(tok)]))}

FirstOccurrence(tok, t) ==
    CHOOSE p \in Occurrences(tok, t) : \A q \in Occurrences(tok, t) : p <= q

RECURSIVE Lines(_)
Lines(s) ==
    LET nl == {k \in 1..Len(s) : s[k] = "\n"}
    IN  IF nl = {} THEN <<s>>
        ELSE LET p == CHOOSE k \in nl : \A j \in nl : k <= j
             IN  <<SubSeq(s, 1, p - 1)>> \o Lines(SubSeq(s, p + 1, Len(s)))

\* C18: for a non-empty list L and a non-empty amount A the formatted output
\* has exactly |L| lines, the k-th being the k-th token of L, one space and A,
\* and it does not end with a newline.
C18_OneLinePerToken ==
    step = "out" =>
        /\ Len(Lines(final_output)) = Len(stored_ids)
        /\ \A k \in 1..Len(stored_ids) :
              Lines(final_output)[k] = stored_ids[k] \o <<" ">> \o stripped_amount
        /\ final_output[Len(final_output)] # "\n"

\* C21: in src/bot.py, the program with the message_user button, only the
\* administrator can be in AWAITING_TARGET_ID: a message_user press by another
\* identity is answered with the rejection notice and leaves its stage as it
\* was, and the same press by the administrator in IDLE takes the
\* administrator's session to AWAITING_TARGET_ID (every call going through).
C21_OnlyAdministratorAwaitsTarget ==
    program = "bot" =>
        /\ \A i \in Identities \ {ADMIN_ID} :
              /\ message_conv[i] # WAITING_FOR_USER_ID
              /\ \A o \in Outcomes(i, Callback("message_user", 0)) :
                    AllOk(o.r.out) =>
                        /\ HasKind(o.r.out, "admin_only")
                        /\ Effect(i, o).mc[i] = message_conv[i]
                        /\ Effect(i, o).pc[i] = payment_conv[i]
        /\ Idle(ADMIN_ID) =>
              \A o \in Outcomes(ADMIN_ID, Callback("message_user", 0)) :
                  AllOk(o.r.out) => Effect(ADMIN_ID, o).mc[ADMIN_ID] = WAITING_FOR_USER_ID

\* C23: a text of an identity whose session is IDLE is dropped: no call is
\* made, and no session, working identifier list, PendingRequest or
\* ApprovedSet changes.
C23_IdleTextIsDropped ==
    \A i \in Identities :
        Idle(i) =>
            \A t \in Texts : \A o \in Outcomes(i, Text(t)) :
                LET e == Effect(i, o)
                IN  /\ o.r.out = <<>>
                    /\ e.au = approved_users
                    /\ e.pa = pending_approvals
                    /\ e.ud = user_data
                    /\ e.pc = payment_conv
                    /\ e.mc = message_conv

\* a text of an identity in IDLE has just been handled: no handler took it
C23_Witness ==
    /\ last.data = "text"
    /\ last.via = ""
    /\ Idle(last.from)

C25_ApprovedHoldsNoRequest ==
    /\ last = NoUpdate => approved_users \cap DOMAIN pending_approvals = {}
    /\ approved_users \cap DOMAIN pending_approvals = {} =>
          \A i \in Identities : \A u \in Updates : \A o \in Outcomes(i, u) :
              AllOk(o.r.out) =>
                  Effect(i, o).au \cap DOMAIN Effect(i, o).pa = {}

\* an identity holds a PendingRequest, no identity is both approved and
\* pending, and the administrator's approve of it runs with every call going
\* through
C25_Witness ==
    /\ approved_users \cap DOMAIN pending_approvals = {}
    /\ \E uid \in DOMAIN pending_approvals :
          \E o \in Outcomes(ADMIN_ID, Callback("approve", uid)) :
              /\ AllOk(o.r.out)
              /\ uid \in Effect(ADMIN_ID, o).au

\* C26: a formatted result is built from exactly the list of the identifier
\* message accepted last in the sender's current run of the format workflow (and
\* the amount just sent); a list left behind by an abandoned, cancelled, failed
\* or restarted run is never used.
C26_FormatsListOfCurrentRun ==
    \A i \in Identities, t \in Texts :
        \A o \in Outcomes(i, Text(t)) :
            \A n \in CallsOfKind(o.r.out, "formatted") :
                /\ accepted[i] # <<>>
                /\ o.r.out[n].body = FinalOutput(accepted[i], Strip(t))

\* an amount arrives and is answered with the formatted result
C26_Witness ==
    \E i \in Identities, t \in Texts :
        \E o \in Outcomes(i, Text(t)) :
            /\ payment_conv[i] = WAITING_FOR_AMOUNT
            /\ HasKind(o.r.out, "formatted")
            /\ AllOk(o.r.out)

\* C27: no access request is stranded: whenever a PendingRequest exists for an
\* identity, the administrator holds at least one prompt for that identity whose
\* buttons have not been pressed.
C27_NoRequestStranded ==
    \A i \in DOMAIN pending_approvals : prompts[i] > 0

\* n is the decimal numeral, without leading zeros, of the number the digits t name
NumeralOf(n, t) ==
    /\ n # <<>>
    /\ Len(n) = 1 \/ n[1] # "0"
    /\ \E z \in 0..Len(t) : t = [k \in 1..z |-> "0"] \o n

\* C22: a text received in AWAITING_TARGET_ID (every call going through) ends
\* the conversation if and only if the trimmed text is made of decimal digits
\* only and has at least 5 characters; the reply is then the direct-open link
\* for exactly that identity followed by the administrator menu; approval state
\* is unchanged either way.
C22_TargetTextEndsIffValid ==
    (step = "target" /\ AllOk(target_result.out)) =>
        LET t     == Strip(message_text)
            valid == Len(t) >= 5 /\ \A k \in 1..Len(t) : t[k] \in Digits
            out   == target_result.out
        IN  /\ (target_result.ret = {END}) <=> valid
            /\ valid => /\ Len(out) = 2
                        /\ out[1].kind = "target_link"
                        /\ NumeralOf(out[1].about, t)
                        /\ out[2].kind = "admin_menu"
            /\ target_result.au = approved_users
            /\ target_result.pa = pending_approvals

====
